---- MODULE Spec2Model ----
(***************************************************************************)
(* A model of ft-image-inspector (src/main.go): the driver loop of main,   *)
(* checkImage, getImagesForContent and the markup walk collectImageSets.   *)
(*                                                                         *)
(* A Go string is a sequence of one-character strings, so that             *)
(* strings.Split and strings.Contains are computed, not assumed.  The      *)
(* document store is a function from identifiers to responses; the parsed  *)
(* markup of a body is a list of html nodes.                               *)
(***************************************************************************)
EXTENDS Integers, Sequences, FiniteSets, TLC

VARIABLES
    pc,          \* position of the run
    printOnly,   \* flag printOnly (main.go:20,46)
    data,        \* the seed list ranged over by main (main.go:63)
    store,       \* the document store: identifier -> response
    i,           \* index of the seed being processed (main.go:63)
    processed,   \* the seeds getImagesForContent was called for, in order
    results,     \* results[id] of the current seed (main.go:76)
    k,           \* index into results of the image being processed (main.go:78)
    checked,     \* checkImage calls made for the current seed, in order
    seen,        \* every checkImage call of the run: [uuid, err]
    broken,      \* the slice broken (main.go:62)
    report,      \* content of the file broken-images, NoFile while not created
    uuid,        \* argument of the checkImage call under study
    out,         \* its result
    nodeList,    \* argument of the collectImageSets call under study
    images       \* its result

vars == <<pc, printOnly, data, store, i, processed, results, k, checked, seen,
          broken, report, uuid, out, nodeList, images>>

-----------------------------------------------------------------------------
(* Bounds of the model *)

MaxSeeds == 2
MaxMembers == 2
MaxAttrs == 3

-----------------------------------------------------------------------------
(* Strings *)

Empty == <<>>
IdA == <<"a">>
IdB == <<"b">>
Ids == {IdA, IdB}
AllIds == Ids \cup {Empty}

Slash == "/"

\* "tid_methode_carousel_" (main.go:134)
Marker ==
    <<"t","i","d","_","m","e","t","h","o","d","e","_",
      "c","a","r","o","u","s","e","l","_">>

\* "http://www.ft.com/ontology/content/ImageSet" (main.go:238)
ImageSetURI ==
    <<"h","t","t","p",":","/","/","w","w","w",".","f","t",".","c","o","m","/",
      "o","n","t","o","l","o","g","y","/","c","o","n","t","e","n","t","/",
      "I","m","a","g","e","S","e","t">>

SeqsUpTo(S, n) == UNION {[1..m -> S] : m \in 0..n}

\* strings.Contains(s, sub)
Contains(s, sub) ==
    \E p \in 1..(Len(s) - Len(sub) + 1) : SubSeq(s, p, p + Len(sub) - 1) = sub

\* strings.Split(s, "/"): the pieces between the separators, empty ones kept
RECURSIVE SplitFrom(_, _)
SplitFrom(s, cur) ==
    IF s = <<>> THEN <<cur>>
    ELSE IF Head(s) = Slash THEN <<cur>> \o SplitFrom(Tail(s), <<>>)
    ELSE SplitFrom(Tail(s), Append(cur, Head(s)))

Split(s) == SplitFrom(s, <<>>)

\* main.go:267-270
extractUUIDfromURL(URL) ==
    LET items == Split(URL) IN items[Len(items)]

-----------------------------------------------------------------------------
(* Markup: html.Node and the walk of collectImageSets *)

Attribute(key, val) == [Key |-> key, Val |-> val]

Node(type, tag, attr, children) ==
    [Type |-> type, Data |-> tag, Attr |-> attr, Children |-> children]

\* main.go:236-242: some attribute is type="...ImageSet"
hasImageSet(node) ==
    \E n \in 1..Len(node.Attr) :
        node.Attr[n].Key = "type" /\ node.Attr[n].Val = ImageSetURI

\* main.go:243-256 with the url branch and the id branch in the other order
\* of precedence: a url attribute wins wherever it stands
refOfAttrs_urlFirst(attr) ==
    LET urls == {n \in 1..Len(attr) : attr[n].Key = "url"}
        ids  == {n \in 1..Len(attr) : attr[n].Key = "id"}
        min(S) == CHOOSE n \in S : \A m \in S : n <= m
    IN IF urls # {} THEN <<extractUUIDfromURL(attr[min(urls)].Val)>>
       ELSE IF ids # {} THEN <<attr[min(ids)].Val>>
       ELSE <<>>

\* main.go:243-256: the loop over the attributes of an image-set element,
\* left at the first url or id attribute
RECURSIVE refOfAttrs(_)
refOfAttrs(attr) ==
    IF attr = <<>> THEN <<>>
    ELSE IF Head(attr).Key = "url" THEN <<extractUUIDfromURL(Head(attr).Val)>>
    ELSE IF Head(attr).Key = "id" THEN <<Head(attr).Val>>
    ELSE refOfAttrs(Tail(attr))

\* main.go:235-257: what one node itself contributes
nodeImages(node) ==
    IF node.Type = "ElementNode" /\ (node.Data = "ft-content" \/ node.Data = "content")
    THEN IF hasImageSet(node) THEN refOfAttrs(node.Attr) ELSE <<>>
    ELSE <<>>

RECURSIVE collectImageSets(_)
RECURSIVE collectChildren(_)

\* main.go:259-262: the loop over the children of a node
collectChildren(children) ==
    IF children = <<>> THEN <<>>
    ELSE collectImageSets(<<Head(children)>>) \o collectChildren(Tail(children))

\* main.go:232-265
collectImageSets(nl) ==
    IF nl = <<>> THEN <<>>
    ELSE nodeImages(Head(nl)) \o collectChildren(Head(nl).Children)
         \o collectImageSets(Tail(nl))

-----------------------------------------------------------------------------
(* Content records and the document store *)

\* type Content (main.go:25-35); the record's identifier is its key in the store
Content(type, ref, members, body, bodyXML, mainImage) ==
    [Type |-> type, PublishReference |-> ref, Members |-> members,
     Body |-> body, BodyXML |-> bodyXML, MainImage |-> mainImage]

ZeroContent == Content("", <<>>, <<>>, <<>>, <<>>, Empty)

\* what getContentFromDocumentStore returns: (*Content, error)
Ok(c) == [err |-> "nil", c |-> c]
Failure == [err |-> "error 404", c |-> ZeroContent]

\* main.go:37-42
GetBody(c) == IF c.Body # <<>> THEN c.Body ELSE c.BodyXML

\* main.go:179-209: one GET of docStoreURL + uuid, answered by the store s
getContentFromDocumentStore(s, id) == s[id]

ImageTypes == {"Image", "ImageSet", "Graphic"}
Types == ImageTypes \cup {"Article", "Other"}

GoodRef == Marker \o <<"1">>
BadRef == <<"t","i","d","_","c","m","s","_","1">>
PubRefs == {GoodRef, BadRef}

\* <ft-content type="...ImageSet" url="x/<id>"></ft-content>
BodyFt(id) ==
    <<Node("ElementNode", "ft-content",
           <<Attribute("type", ImageSetURI),
             Attribute("url", <<"x", Slash>> \o id)>>, <<>>)>>

\* <content id="<id>" type="...ImageSet"></content>
BodyContent(id) ==
    <<Node("ElementNode", "content",
           <<Attribute("id", id), Attribute("type", ImageSetURI)>>, <<>>)>>

-----------------------------------------------------------------------------
(* checkImage, getImagesForContent, dedupStrings *)

NilImg == <<"nil">>

Result(img, err, resolved) == [img |-> img, err |-> err, resolved |-> resolved]

\* main.go:127-132 with the default branch missing
typeAccepted_all(c) == TRUE

\* main.go:127-132: the switch on c.Type
typeAccepted(c) == c.Type \in ImageTypes

\* main.go:134 with the marker cut to its first four characters
publishedByConverter_anyTid(c) ==
    Contains(c.PublishReference, SubSeq(Marker, 1, 4))

\* main.go:134: the condition the provenance check negates
publishedByConverter(c) == Contains(c.PublishReference, Marker)

\* main.go:143 testing for no member instead of for other than one
singleMember_nonEmpty(c) == Len(c.Members) # 0

\* main.go:143: the condition under which the member is looked at
singleMember(c) == Len(c.Members) = 1

\* main.go:151-155 with the comparison inverted
memberRefersTo_other(m, memberUUID) ==
    \E n \in 1..Len(m.Members) : m.Members[n] # memberUUID

\* main.go:151-155: some member of m is memberUUID
memberRefersTo(m, memberUUID) ==
    \E n \in 1..Len(m.Members) : m.Members[n] = memberUUID

\* main.go:122-158.  img is the identifier of the record returned (NilImg for
\* nil), resolved the identifiers fetched from the store, in order.
checkImage(s, id) ==
    LET r == getContentFromDocumentStore(s, id)
        c == r.c
    IN IF r.err # "nil" THEN Result(NilImg, "resolve failed", <<id>>)
       ELSE IF ~typeAccepted(c)
            THEN Result(NilImg, "unexpected type", <<id>>)
       ELSE IF ~publishedByConverter(c)
            THEN Result(id, "ErrContentNotPublishedByConverter", <<id>>)
       ELSE IF c.Type # "ImageSet" THEN Result(id, "nil", <<id>>)
       ELSE IF ~singleMember(c) THEN Result(id, "nil", <<id>>)
       ELSE LET memberUUID == c.Members[1]
                mr == getContentFromDocumentStore(s, memberUUID)
            IN IF mr.err # "nil"
               THEN Result(NilImg, "member resolve failed", <<id, memberUUID>>)
               ELSE IF memberRefersTo(mr.c, memberUUID)
                    THEN Result(memberUUID, "ErrImageSetBroken", <<id, memberUUID>>)
               ELSE Result(id, "nil", <<id, memberUUID>>)

\* main.go:211-230: the markup is held parsed; an empty body gives nil
getImageSetFromBody(c) ==
    LET bodyAsString == GetBody(c)
    IN IF bodyAsString = <<>> THEN <<>> ELSE collectImageSets(bodyAsString)

\* main.go:160-177 without the test of c.Type at main.go:166
getImagesForContent_anyType(s, id) ==
    LET r == getContentFromDocumentStore(s, id)
    IN IF r.err # "nil" THEN [isNil |-> TRUE, images |-> <<>>, err |-> r.err]
       ELSE [isNil |-> FALSE,
             images |-> Append(getImageSetFromBody(r.c), r.c.MainImage),
             err |-> "nil"]

\* main.go:160-177: (images, err); isNil tells a nil slice
getImagesForContent(s, id) ==
    LET r == getContentFromDocumentStore(s, id)
    IN IF r.err # "nil" THEN [isNil |-> TRUE, images |-> <<>>, err |-> r.err]
       ELSE IF r.c.Type # "Article"
            THEN [isNil |-> TRUE, images |-> <<>>, err |-> "nil"]
       ELSE [isNil |-> FALSE,
             images |-> Append(getImageSetFromBody(r.c), r.c.MainImage),
             err |-> "nil"]

Range(f) == {f[n] : n \in DOMAIN f}

NoDuplicates(f) == \A m, n \in DOMAIN f : f[m] = f[n] => m = n

\* main.go:272-282 returning its argument as it is
dedupStrings_keep(uuids) == {uuids}

\* main.go:272-282: the keys of a map, in the order its iteration gives them,
\* which Go leaves unspecified: every order is a possible result
dedupStrings(uuids) ==
    LET set == Range(uuids)
    IN {r \in [1..Cardinality(set) -> set] : Range(r) = set}

\* main.go:84-93: the errors for which the image is appended to broken
isReported(err) ==
    err \in {"ErrImageSetBroken", "ErrContentNotPublishedByConverter"}

-----------------------------------------------------------------------------
(* Inputs *)

\* the records a store of the driver's runs holds: articles with a body in
\* either field and a main image, image sets with members, plain images
Articles ==
    {Content("Article", ref, <<>>, b[1], b[2], mi) :
        ref \in PubRefs, mi \in AllIds,
        b \in {<<<<>>, <<>>>>, <<BodyFt(IdA), <<>>>>, <<<<>>, BodyContent(IdB)>>,
               <<BodyFt(IdB), BodyContent(IdA)>>}}

ImageSets ==
    {Content("ImageSet", ref, ms, <<>>, <<>>, Empty) :
        ref \in PubRefs, ms \in SeqsUpTo(Ids, MaxMembers)}

Plain ==
    {Content(t, ref, <<>>, <<>>, <<>>, Empty) :
        t \in {"Image", "Graphic", "Other"}, ref \in PubRefs}

Responses == {Failure} \cup {Ok(c) : c \in Articles \cup ImageSets \cup Plain}

\* what a GET of docStoreURL alone (the empty identifier) is answered with
EmptyResponses ==
    {Failure, Ok(Content("ImageSet", GoodRef, <<Empty>>, <<>>, <<>>, Empty))}

\* the records checkImage is studied on: every type with every member list
CheckResponses ==
    {Failure} \cup
    {Ok(Content(t, ref, ms, <<>>, <<>>, Empty)) :
        t \in Types, ref \in PubRefs, ms \in SeqsUpTo(Ids, MaxMembers)}

StoreOf(f, e) == [id \in AllIds |-> IF id = Empty THEN e ELSE f[id]]

NoFile == [written |-> FALSE, lines |-> <<>>]
File(lines) == [written |-> TRUE, lines |-> lines]

NoResult == Result(NilImg, "none", <<>>)

-----------------------------------------------------------------------------
(* The run of main *)

\* the state main's loop starts in, the store answering with responses of R
InitRun(R) ==
    /\ pc = "loop"
    /\ printOnly \in BOOLEAN
    /\ data \in SeqsUpTo(Ids, MaxSeeds)
    /\ \E f \in [Ids -> R], e \in EmptyResponses : store = StoreOf(f, e)
    /\ i = 1
    /\ processed = <<>>
    /\ results = <<>>
    /\ k = 1
    /\ checked = <<>>
    /\ seen = {}
    /\ broken = <<>>
    /\ report = NoFile
    /\ uuid = Empty
    /\ out = NoResult
    /\ nodeList = <<>>
    /\ images = <<>>

Init == InitRun(Responses)

\* main.go:63-76 with the continue of main.go:70 a return to the end of main
MainFetch_abort ==
    /\ pc = "loop"
    /\ i <= Len(data)
    /\ LET id == data[i]
           g  == getImagesForContent(store, id)
       IN /\ processed' = Append(processed, id)
          /\ checked' = <<>>
          /\ IF g.err # "nil"
             THEN /\ pc' = "done"
                  /\ results' = <<>>
                  /\ UNCHANGED <<i, k>>
             ELSE IF g.isNil
             THEN /\ i' = i + 1
                  /\ results' = <<>>
                  /\ UNCHANGED <<pc, k>>
             ELSE /\ results' \in dedupStrings(g.images)
                  /\ k' = 1
                  /\ pc' = "images"
                  /\ UNCHANGED i
    /\ UNCHANGED <<printOnly, data, store, seen, broken, report,
                   uuid, out, nodeList, images>>

\* main.go:63-76: the head of one iteration of the loop over data
MainFetch ==
    /\ pc = "loop"
    /\ i <= Len(data)
    /\ LET id == data[i]
           g  == getImagesForContent(store, id)
       IN /\ processed' = Append(processed, id)
          /\ checked' = <<>>
          /\ IF g.err # "nil" \/ g.isNil
             THEN /\ i' = i + 1
                  /\ results' = <<>>
                  /\ UNCHANGED <<pc, k>>
             ELSE /\ results' \in dedupStrings(g.images)
                  /\ k' = 1
                  /\ pc' = "images"
                  /\ UNCHANGED i
    /\ UNCHANGED <<printOnly, data, store, seen, broken, report,
                   uuid, out, nodeList, images>>

\* main.go:78-99 with the continue statements of main.go:87,92,95 as breaks
MainCheckImage_break ==
    /\ pc = "images"
    /\ k <= Len(results)
    /\ LET imageUUID == results[k]
       IN IF printOnly /\ imageUUID # Empty
          THEN /\ k' = k + 1
               /\ UNCHANGED <<checked, seen, broken>>
          ELSE LET r == checkImage(store, imageUUID)
               IN /\ checked' = Append(checked,
                         [uuid |-> imageUUID, err |-> r.err, resolved |-> r.resolved])
                  /\ seen' = seen \cup {[uuid |-> imageUUID, err |-> r.err]}
                  /\ broken' = IF isReported(r.err)
                               THEN Append(broken, imageUUID) ELSE broken
                  /\ k' = IF r.err # "nil" THEN Len(results) + 1 ELSE k + 1
    /\ UNCHANGED <<pc, printOnly, data, store, i, processed, results, report,
                   uuid, out, nodeList, images>>

\* main.go:78-99: one iteration of the loop over results[id]
MainCheckImage ==
    /\ pc = "images"
    /\ k <= Len(results)
    /\ LET imageUUID == results[k]
       IN IF printOnly /\ imageUUID # Empty
          THEN UNCHANGED <<checked, seen, broken>>
          ELSE LET r == checkImage(store, imageUUID)
               IN /\ checked' = Append(checked,
                         [uuid |-> imageUUID, err |-> r.err, resolved |-> r.resolved])
                  /\ seen' = seen \cup {[uuid |-> imageUUID, err |-> r.err]}
                  /\ broken' = IF isReported(r.err)
                               THEN Append(broken, imageUUID) ELSE broken
    /\ k' = k + 1
    /\ UNCHANGED <<pc, printOnly, data, store, i, processed, results, report,
                   uuid, out, nodeList, images>>

\* main.go:100: the end of one iteration of the loop over data
MainSleep ==
    /\ pc = "images"
    /\ k > Len(results)
    /\ i' = i + 1
    /\ pc' = "loop"
    /\ UNCHANGED <<printOnly, data, store, processed, results, k, checked, seen,
                   broken, report, uuid, out, nodeList, images>>

\* main.go:103-114: after the loop
MainFinish ==
    /\ pc = "loop"
    /\ i > Len(data)
    /\ IF ~printOnly
       THEN /\ broken' \in dedupStrings(broken)
            /\ report' = File(broken')
       ELSE UNCHANGED <<broken, report>>
    /\ pc' = "done"
    /\ UNCHANGED <<printOnly, data, store, i, processed, results, k, checked,
                   seen, uuid, out, nodeList, images>>

Next == MainFetch \/ MainCheckImage \/ MainSleep \/ MainFinish

Spec == Init /\ [][Next]_vars

\* the stores the termination of the run is studied on: failing identifiers,
\* unrecognized types, articles, and image sets that refer to themselves or
\* to each other
FairResponses ==
    {Failure}
    \cup {Ok(c) : c \in {a \in Articles :
                            a.PublishReference = GoodRef /\ a.BodyXML = <<>>}}
    \cup {Ok(c) : c \in {m \in ImageSets : Len(m.Members) = 1}}
    \cup {Ok(Content("Other", GoodRef, <<>>, <<>>, <<>>, Empty))}

InitFair == InitRun(FairResponses)

\* the run is one sequential thread: a step that can be taken is taken
FairSpec == InitFair /\ [][Next]_vars /\ WF_vars(Next)

-----------------------------------------------------------------------------
(* checkImage on its own: one call on every store *)

InitCheck ==
    /\ pc = "call"
    /\ \E f \in [Ids -> CheckResponses] : store = StoreOf(f, Failure)
    /\ uuid \in Ids
    /\ out = NoResult
    /\ printOnly = FALSE
    /\ data = <<>>
    /\ i = 1
    /\ processed = <<>>
    /\ results = <<>>
    /\ k = 1
    /\ checked = <<>>
    /\ seen = {}
    /\ broken = <<>>
    /\ report = NoFile
    /\ nodeList = <<>>
    /\ images = <<>>

CheckCall ==
    /\ pc = "call"
    /\ out' = checkImage(store, uuid)
    /\ pc' = "returned"
    /\ UNCHANGED <<printOnly, data, store, i, processed, results, k, checked,
                   seen, broken, report, uuid, nodeList, images>>

NextCheck == CheckCall

SpecCheck == InitCheck /\ [][NextCheck]_vars

-----------------------------------------------------------------------------
(* collectImageSets on its own: one call on every node list *)

UrlValues ==
    {<<"x", Slash>> \o IdA, IdA, <<"x", Slash, "y", Slash>> \o IdB, IdA \o <<Slash>>}

Attributes ==
    {Attribute("type", ImageSetURI), Attribute("type", <<"x">>),
     Attribute("id", IdA), Attribute("id", IdB)}
    \cup {Attribute("url", v) : v \in UrlValues}

Tags == {"ft-content", "content", "p"}

Elements ==
    {Node("ElementNode", tag, attr, <<>>) :
        tag \in Tags, attr \in SeqsUpTo(Attributes, MaxAttrs)}

\* an element nested in an image-set element, and one beside a text node
Nested(n) ==
    <<Node("ElementNode", "ft-content",
           <<Attribute("type", ImageSetURI), Attribute("id", IdB)>>, <<n>>)>>

Beside(n) == <<Node("TextNode", "text", <<>>, <<>>), n>>

NodeLists ==
    {<<n>> : n \in Elements} \cup {Nested(n) : n \in Elements}
    \cup {Beside(n) : n \in Elements}

InitExtract ==
    /\ pc = "call"
    /\ nodeList \in NodeLists
    /\ images = <<>>
    /\ store = StoreOf([id \in Ids |-> Failure], Failure)
    /\ uuid = Empty
    /\ out = NoResult
    /\ printOnly = FALSE
    /\ data = <<>>
    /\ i = 1
    /\ processed = <<>>
    /\ results = <<>>
    /\ k = 1
    /\ checked = <<>>
    /\ seen = {}
    /\ broken = <<>>
    /\ report = NoFile

ExtractCall ==
    /\ pc = "call"
    /\ images' = collectImageSets(nodeList)
    /\ pc' = "returned"
    /\ UNCHANGED <<printOnly, data, store, i, processed, results, k, checked,
                   seen, broken, report, uuid, out, nodeList>>

NextExtract == ExtractCall

SpecExtract == InitExtract /\ [][NextExtract]_vars

-----------------------------------------------------------------------------
(* The properties *)

Resolved(id) == store[id].err = "nil"

\* id resolves as an ImageSet whose only member is id itself
SelfSet(id) ==
    /\ Resolved(id)
    /\ store[id].c.Type = "ImageSet"
    /\ store[id].c.Members = <<id>>

\* id resolves as an ImageSet with no member or with two or more
MultiSet(id) ==
    /\ Resolved(id)
    /\ store[id].c.Type = "ImageSet"
    /\ Len(store[id].c.Members) # 1

HasMarker(id) == Contains(store[id].c.PublishReference, Marker)

\* id resolves to a record whose provenance tag lacks the marker
LacksMarker(id) == Resolved(id) /\ ~HasMarker(id)

\* the verdict an error of checkImage stands for
Verdict(err) ==
    CASE err = "nil" -> "Safe"
      [] err = "ErrImageSetBroken" -> "Broken"
      [] err = "ErrContentNotPublishedByConverter" -> "WrongProvenance"
      [] err = "unexpected type" -> "UnresolvedType"
      [] OTHER -> "ResolutionFailed"

\* first failure wins: the verdict of the first member that is not Safe
RECURSIVE Aggregate(_, _)
Aggregate(s, members) ==
    IF members = <<>> THEN "Safe"
    ELSE LET v == Verdict(checkImage(s, Head(members)).err)
         IN IF v # "Safe" THEN v ELSE Aggregate(s, Tail(members))

Lines == Range(report.lines)

\* C1 as stated: checkImage of an ImageSet whose only member is itself returns
\* ErrImageSetBroken, whatever else the record holds.
C1_SelfCycleAlwaysBroken ==
    (pc = "returned" /\ SelfSet(uuid)) => out.err = "ErrImageSetBroken"

\* C1 amended: checkImage of an ImageSet whose only member is itself, whose
\* provenance tag holds the marker and which the store returns again when it is
\* fetched as its own member, returns ErrImageSetBroken with that record.
C1_SelfCycleBroken ==
    (pc = "returned" /\ SelfSet(uuid) /\ HasMarker(uuid))
        => (out.err = "ErrImageSetBroken" /\ out.img = uuid
            /\ out.resolved = <<uuid, uuid>>)

C1_Witness ==
    /\ pc = "returned"
    /\ SelfSet(uuid)
    /\ HasMarker(uuid)
    /\ out.err = "ErrImageSetBroken"

\* C2 as stated: for an ImageSet with no member or with two or more, the verdict
\* is the first-failure-wins aggregate of the verdicts of its members.  It is
\* stated here for the sets that pass the provenance check only, where nothing
\* but the members could decide the verdict.
C2_VerdictIsAggregate ==
    (pc = "returned" /\ MultiSet(uuid) /\ HasMarker(uuid))
        => Verdict(out.err) = Aggregate(store, store[uuid].c.Members)

\* C2 amended: for an ImageSet with no member or with two or more, the cycle
\* check never fires and no member is fetched or verified: the verdict is
\* WrongProvenance when the provenance tag lacks the marker and Safe otherwise.
C2_NoMemberVerified ==
    (pc = "returned" /\ MultiSet(uuid))
        => /\ out.resolved = <<uuid>>
           /\ out.err = IF HasMarker(uuid) THEN "nil"
                        ELSE "ErrContentNotPublishedByConverter"

C2_Witness ==
    /\ pc = "returned"
    /\ MultiSet(uuid)
    /\ HasMarker(uuid)
    /\ Len(store[uuid].c.Members) = 2
    /\ Aggregate(store, store[uuid].c.Members) # "Safe"
    /\ out.err = "nil"

\* C3 as stated: not in print-only mode, with the seed list [A] and A an ImageSet
\* whose only member is A, the run ends with A in the broken report.
C3_SelfCycleSeedReported ==
    \A A \in Ids :
        (pc = "done" /\ ~printOnly /\ data = <<A>> /\ SelfSet(A)) => A \in Lines

\* C3 amended: not in print-only mode, with the seed list [A] and A an ImageSet
\* whose only member is A, the seed is not an Article and is skipped: checkImage
\* is never called and the run ends with an empty broken report.
C3_SelfCycleSeedSkipped ==
    \A A \in Ids :
        (pc = "done" /\ ~printOnly /\ data = <<A>> /\ SelfSet(A))
            => (report = File(<<>>) /\ seen = {})

C3_Witness ==
    \E A \in Ids :
        /\ pc = "done"
        /\ ~printOnly
        /\ data = <<A>>
        /\ SelfSet(A)
        /\ HasMarker(A)
        /\ processed = <<A>>
        /\ report.written

\* C4 as stated: not in print-only mode, with the seed list [C] and C a record
\* whose provenance tag lacks the marker, the verdict for C is WrongProvenance
\* and the run ends with C in the broken report.
C4_WrongProvenanceSeedReported ==
    \A C \in Ids :
        (pc = "done" /\ ~printOnly /\ data = <<C>> /\ LacksMarker(C))
            => /\ C \in Lines
               /\ [uuid |-> C, err |-> "ErrContentNotPublishedByConverter"] \in seen

\* C4 amended: not in print-only mode, with the seed list [C] and C a record
\* whose provenance tag lacks the marker, the provenance of the seed is never
\* checked: no WrongProvenance verdict is produced for C and the run ends with C
\* absent from the broken report.
C4_SeedProvenanceNotChecked ==
    \A C \in Ids :
        (pc = "done" /\ ~printOnly /\ data = <<C>> /\ LacksMarker(C))
            => /\ C \notin Lines
               /\ [uuid |-> C, err |-> "ErrContentNotPublishedByConverter"] \notin seen

C4_Witness ==
    \E C \in Ids :
        /\ pc = "done"
        /\ ~printOnly
        /\ data = <<C>>
        /\ LacksMarker(C)
        /\ store[C].c.Type = "Article"
        /\ \E e \in seen : e.uuid = C
        /\ report.written

\* C5 as stated: for a record whose provenance tag lacks the marker checkImage
\* returns WrongProvenance for every content type, and fetches no member.
C5_ProvenanceBeforeType ==
    (pc = "returned" /\ LacksMarker(uuid))
        => /\ out.err = "ErrContentNotPublishedByConverter"
           /\ out.resolved = <<uuid>>

\* C5 amended: the type check precedes the provenance check.  For a record
\* whose provenance tag lacks the marker checkImage returns WrongProvenance when
\* the type is Image, ImageSet or Graphic and the unexpected-type error for every
\* other type; in both cases no member is fetched.
C5_TypeBeforeProvenance ==
    (pc = "returned" /\ LacksMarker(uuid))
        => /\ out.err = IF store[uuid].c.Type \in {"Image", "ImageSet", "Graphic"}
                        THEN "ErrContentNotPublishedByConverter"
                        ELSE "unexpected type"
           /\ out.resolved = <<uuid>>

C5_Witness ==
    /\ pc = "returned"
    /\ LacksMarker(uuid)
    /\ store[uuid].c.Type = "ImageSet"
    /\ Len(store[uuid].c.Members) = 1
    /\ out.err = "ErrContentNotPublishedByConverter"

\* C6: in print-only mode checkImage is never called, for no identifier, the
\* empty main-image identifier included, and no broken report is written.
C6_PrintOnlyChecksNothing ==
    printOnly => (seen = {} /\ ~report.written)

\* C7 as stated: at the end of a run not in print-only mode the report holds
\* every identifier whose verification gave a verdict other than Safe, none
\* whose verification was Safe, and none twice.
C7_EveryFailureReported ==
    (pc = "done" /\ ~printOnly)
        => /\ \A e \in seen : e.err # "nil" => e.uuid \in Lines
           /\ \A e \in seen : e.err = "nil" => e.uuid \notin Lines
           /\ NoDuplicates(report.lines)

\* C7 amended: at the end of a run not in print-only mode the report holds
\* exactly the identifiers of which a verification returned Broken or
\* WrongProvenance, none of them twice; an identifier whose verifications gave
\* only Safe, UnresolvedType or ResolutionFailed is not in it.
C7_BrokenAndWrongProvenanceReported ==
    (pc = "done" /\ ~printOnly)
        => /\ report.written
           /\ Lines = {e.uuid : e \in {x \in seen :
                          Verdict(x.err) \in {"Broken", "WrongProvenance"}}}
           /\ NoDuplicates(report.lines)

C7_Witness ==
    /\ pc = "done"
    /\ ~printOnly
    /\ Len(data) = 2
    /\ \E e \in seen : Verdict(e.err) \in {"UnresolvedType", "ResolutionFailed"}
    /\ \E e \in seen : Verdict(e.err) \in {"Broken", "WrongProvenance"}
    /\ Len(report.lines) = 1

-----------------------------------------------------------------------------
(* The extraction rule of C8, stated apart from the walk of the code *)

\* the part of v after its last "/", all of v when it has none
LastSegment(v) ==
    LET at == {p \in 1..Len(v) : v[p] = Slash}
        last == IF at = {} THEN 0 ELSE CHOOSE p \in at : \A q \in at : q <= p
    IN [n \in 1..(Len(v) - last) |-> v[last + n]]

IsImageSetRef(n) ==
    /\ n.Type = "ElementNode"
    /\ n.Data \in {"ft-content", "content"}
    /\ \E p \in DOMAIN n.Attr : n.Attr[p] = Attribute("type", ImageSetURI)

Positions(n, keys) == {p \in DOMAIN n.Attr : n.Attr[p].Key \in keys}

First(S) == CHOOSE p \in S : \A q \in S : p <= q

\* the url attribute is preferred wherever it stands, the id attribute is used
\* only without one
UrlPreferred(n) ==
    IF Positions(n, {"url"}) # {}
    THEN <<LastSegment(n.Attr[First(Positions(n, {"url"}))].Val)>>
    ELSE IF Positions(n, {"id"}) # {}
    THEN <<n.Attr[First(Positions(n, {"id"}))].Val>>
    ELSE <<>>

\* the first attribute that is a url or an id decides
FirstOfUrlAndId(n) ==
    LET at == Positions(n, {"url", "id"})
    IN IF at = {} THEN <<>>
       ELSE IF n.Attr[First(at)].Key = "url"
       THEN <<LastSegment(n.Attr[First(at)].Val)>>
       ELSE <<n.Attr[First(at)].Val>>

RECURSIVE References(_, _)
References(nl, rule) ==
    IF nl = <<>> THEN <<>>
    ELSE LET n == Head(nl)
             own == IF ~IsImageSetRef(n) THEN <<>>
                    ELSE IF rule = "url preferred" THEN UrlPreferred(n)
                    ELSE FirstOfUrlAndId(n)
         IN own \o References(n.Children, rule) \o References(Tail(nl), rule)

\* C8 as stated: an image-set element with a url attribute yields the segment
\* after the last "/" of the url, also when an id attribute stands before it;
\* the id attribute is used only without a url; with neither, nothing.
C8_UrlPreferred ==
    pc = "returned" => images = References(nodeList, "url preferred")

\* C8 amended: an image-set element yields the value of the first of its
\* attributes that is a url or an id: for a url the segment after its last "/",
\* for an id its raw value, a later url or id attribute being ignored; with
\* neither attribute it yields nothing.
C8_FirstAttributeWins ==
    pc = "returned" => images = References(nodeList, "first attribute")

C8_Witness ==
    /\ pc = "returned"
    /\ Len(nodeList) = 1
    /\ IsImageSetRef(nodeList[1])
    /\ Positions(nodeList[1], {"url"}) # {}
    /\ Positions(nodeList[1], {"id"}) # {}
    /\ First(Positions(nodeList[1], {"id"})) < First(Positions(nodeList[1], {"url"}))
    /\ images = <<nodeList[1].Attr[First(Positions(nodeList[1], {"id"}))].Val>>

-----------------------------------------------------------------------------

Uuids(cs) == [n \in DOMAIN cs |-> cs[n].uuid]

\* C9 as stated: once a child of an Article has given a verdict other than
\* Safe, no later child of that Article is fetched or verified.
C9_ShortCircuit ==
    ~printOnly =>
        \A p, q \in DOMAIN checked : p < q => checked[p].err = "nil"

\* C9 amended: the deduplicated identifiers of an Article are verified one after
\* another, each once, and a verdict other than Safe does not stop the loop:
\* every later child is verified too, each child has its own verdict and the
\* Article gets none.
C9_EveryChildVerified ==
    (pc = "images" /\ ~printOnly)
        => /\ Uuids(checked) = SubSeq(results, 1, k - 1)
           /\ NoDuplicates(results)
           /\ Range(results) = Range(getImagesForContent(store, data[i]).images)

C9_Witness ==
    /\ pc = "images"
    /\ ~printOnly
    /\ k > Len(results)
    /\ Len(checked) = 2
    /\ checked[1].err # "nil"

\* C10: whatever the store answers, a failure for one seed ends the work on that
\* seed only: every seed of the list is processed, in list order, and the run
\* reaches its end.
C10_EverySeedProcessed ==
    <>(pc = "done" /\ processed = data)

C10_Witness ==
    /\ pc = "done"
    /\ Len(data) = 2
    /\ ~Resolved(data[1])
    /\ store[data[2]].c.Type = "Article"
    /\ processed = data
    /\ seen # {}

====
